---- MODULE Spec2Model ----
(***************************************************************************)
(* Model of src/radian.rs (globe-rs): the Radian unit, a float normalised   *)
(* to [0, TAU) on construction and after `*=`.                              *)
(*                                                                         *)
(* Float is modelled as a binary floating-point format of the IEEE 754     *)
(* kind with a reduced precision and exponent range: signed zeros,         *)
(* subnormals, round-to-nearest-even, overflow to infinity and NaN.  A     *)
(* finite magnitude is an integer count of the smallest subnormal.         *)
(***************************************************************************)
EXTENDS Integers, Sequences, FiniteSets

VARIABLES radian,   \* the Radian instance: the tuple struct Radian(PositiveFloat(Float))
          op,       \* history: the last operation applied to the instance
          input,    \* history: the raw Float handed to the last operation
          before,   \* history: as_float() of the receiver before the last `*=`
          encoded,  \* the last serialized form, <<>> when there is none
          sent,     \* history: the Radian that was serialized
          decoded   \* the last deserialized Radian, <<>> when there is none

vars == <<radian, op, input, before, encoded, sent, decoded>>

-----------------------------------------------------------------------------
(* The floating-point format.                                              *)

\* Significand bits, implicit bit included (f64: 53).
Precision == 3
\* Largest exponent (f64: 1023).
EMax == 3
\* The smallest normal exponent is -EMinAbs (f64: 1022).
EMinAbs == 2
\* Largest |k| tried in x + k * TAU.
MaxTurns == 2

RECURSIVE Pow2(_)
Pow2(n) == IF n = 0 THEN 1 ELSE 2 * Pow2(n - 1)

\* One unit of magnitude is 2^-FracBits, the smallest subnormal.
FracBits == Precision - 1 + EMinAbs
MaxStep == EMax + EMinAbs
MaxMag == (Pow2(Precision) - 1) * Pow2(MaxStep)

Representable(m) ==
    /\ m <= MaxMag
    /\ \E s \in 0..MaxStep : m % Pow2(s) = 0 /\ m \div Pow2(s) < Pow2(Precision)

Mags == {m \in 0..MaxMag : Representable(m)}

Fin(neg, m) == [kind |-> "fin", neg |-> neg, mag |-> m]
Inf(neg) == [kind |-> "inf", neg |-> neg, mag |-> 0]
\* The sign and payload of a NaN are not observable through any operation
\* of radian.rs, so one NaN stands for all of them.
NaN == [kind |-> "nan", neg |-> FALSE, mag |-> 0]

FiniteFloats == {Fin(n, m) : n \in BOOLEAN, m \in Mags}

is_finite(a) == a.kind = "fin"
is_nan(a) == a.kind = "nan"
is_sign_negative(a) == a.neg

\* The exact value of a finite float, in units.
Value(a) == IF a.neg THEN 0 - a.mag ELSE a.mag
\* Position in the order of the non-NaN floats.
Ord(a) == IF a.kind = "inf"
          THEN (IF a.neg THEN 0 - (MaxMag + 1) ELSE MaxMag + 1)
          ELSE Value(a)

\* The comparisons of PartialOrd / PartialEq on floats: false on NaN.
FLe(a, b) == ~is_nan(a) /\ ~is_nan(b) /\ Ord(a) <= Ord(b)
FLt(a, b) == ~is_nan(a) /\ ~is_nan(b) /\ Ord(a) < Ord(b)
FEq(a, b) == ~is_nan(a) /\ ~is_nan(b) /\ Ord(a) = Ord(b)

\* The spacing 2^s of the floats around the magnitude q.
RECURSIVE StepOf(_, _)
StepOf(q, s) == IF q < Pow2(Precision + s) THEN s ELSE StepOf(q, s + 1)

\* num/den units rounded to the nearest magnitude of the format with an
\* unbounded exponent, ties to the even significand.
RoundMag(num, den) ==
    LET w == Pow2(StepOf(num \div den, 0))
        lo == (num \div (den * w)) * w
        r2 == 2 * (num - lo * den)
        half == w * den
    IN  IF r2 < half THEN lo
        ELSE IF r2 > half THEN lo + w
        ELSE IF (lo \div w) % 2 = 0 THEN lo ELSE lo + w

\* The float nearest to the rational num/den units, with the given sign.
FromRat(neg, num, den) ==
    LET m == RoundMag(num, den)
    IN  IF m > MaxMag THEN Inf(neg) ELSE Fin(neg, m)

\* a + b
FAdd(a, b) ==
    IF is_nan(a) \/ is_nan(b) THEN NaN
    ELSE IF a.kind = "inf"
         THEN (IF b.kind = "inf" /\ a.neg # b.neg THEN NaN ELSE a)
    ELSE IF b.kind = "inf" THEN b
    ELSE LET v == Value(a) + Value(b)
         IN  IF v = 0 THEN Fin(a.neg /\ b.neg, 0)
             ELSE IF v < 0 THEN FromRat(TRUE, 0 - v, 1)
             ELSE FromRat(FALSE, v, 1)

\* a - b
FSub(a, b) == FAdd(a, IF is_nan(b) THEN NaN ELSE [b EXCEPT !.neg = ~b.neg])

\* a * b
FMul(a, b) ==
    IF is_nan(a) \/ is_nan(b) THEN NaN
    ELSE IF a.kind = "inf" \/ b.kind = "inf"
         THEN (IF (a.kind = "fin" /\ a.mag = 0) \/ (b.kind = "fin" /\ b.mag = 0)
               THEN NaN
               ELSE Inf(a.neg # b.neg))
    ELSE FromRat(a.neg # b.neg, a.mag * b.mag, Pow2(FracBits))

\* a % b: the remainder of the truncated division, exact, with the sign of a.
FRem(a, b) ==
    IF is_nan(a) \/ is_nan(b) \/ a.kind = "inf" \/ (b.kind = "fin" /\ b.mag = 0)
    THEN NaN
    ELSE IF b.kind = "inf" THEN a
    ELSE Fin(a.neg, a.mag % b.mag)

\* (lo..hi).contains(&v)
contains(lo, hi, v) == FLe(lo, v) /\ FLt(v, hi)

Zero == Fin(FALSE, 0)

\* Float::MIN_POSITIVE: the smallest positive normal float, 2^-EMinAbs.
MIN_POSITIVE == Fin(FALSE, Pow2(Precision - 1))

\* crate::TAU: the float nearest to 2 * pi.
TAU == FromRat(FALSE, 628319 * Pow2(FracBits), 100000)

-----------------------------------------------------------------------------
(* PositiveFloat (crate root).                                             *)

\* PositiveFloat::from(value): stores the value verbatim.
PositiveFloat_from(value) == <<value>>
\* PositiveFloat::as_float(&self)
PositiveFloat_as_float(p) == p[1]
\* PositiveFloat::MIN
PositiveFloat_MIN == <<Zero>>
\* #[derive(Serialize)] on the newtype struct PositiveFloat(Float)
PositiveFloat_serialize(p) == [name |-> "PositiveFloat", field |-> p[1]]
\* #[derive(Deserialize)]: the field is taken as it is
PositiveFloat_deserialize(e) == <<e.field>>

-----------------------------------------------------------------------------
(* Radian.                                                                 *)

\* Variants of the conversion, each with one slip in it.
\* The fast path taken on the closed range 0. ..=TAU.
from_inclusive(value) ==
    IF FLe(Zero, value) /\ FLe(value, TAU)
    THEN <<PositiveFloat_from(value)>>
    ELSE LET modulus == FRem(value, TAU)
         IN  IF is_sign_negative(value)
             THEN <<PositiveFloat_from(FRem(FAdd(modulus, TAU), TAU))>>
             ELSE <<PositiveFloat_from(modulus)>>

\* No fast path and no sign test: ((value % TAU) + TAU) % TAU for every input.
from_idiom(value) ==
    <<PositiveFloat_from(FRem(FAdd(FRem(value, TAU), TAU), TAU))>>

\* The negative remainder is left as it is.
from_no_correction(value) ==
    IF contains(Zero, TAU, value)
    THEN <<PositiveFloat_from(value)>>
    ELSE <<PositiveFloat_from(FRem(value, TAU))>>

\* One turn is subtracted instead of taking the remainder.
from_subtract_once(value) ==
    IF contains(Zero, TAU, value)
    THEN <<PositiveFloat_from(value)>>
    ELSE IF is_sign_negative(value)
         THEN <<PositiveFloat_from(FRem(FAdd(FRem(value, TAU), TAU), TAU))>>
         ELSE <<PositiveFloat_from(FSub(value, TAU))>>

\* The corrected remainder is not reduced again.
from_no_second_mod(value) ==
    IF contains(Zero, TAU, value)
    THEN <<PositiveFloat_from(value)>>
    ELSE LET modulus == FRem(value, TAU)
         IN  IF is_sign_negative(value)
             THEN <<PositiveFloat_from(FAdd(modulus, TAU))>>
             ELSE <<PositiveFloat_from(modulus)>>

\* A negative input is reduced by its absolute value.
from_abs(value) ==
    IF contains(Zero, TAU, value)
    THEN <<PositiveFloat_from(value)>>
    ELSE <<PositiveFloat_from(FRem([value EXCEPT !.neg = FALSE], TAU))>>

\* impl From<Float> for Radian
from(value) ==
    IF contains(Zero, TAU, value)
    THEN <<PositiveFloat_from(value)>>
    ELSE LET modulus == FRem(value, TAU)
         IN  IF is_sign_negative(value)
             THEN <<PositiveFloat_from(FRem(FAdd(modulus, TAU), TAU))>>
             ELSE <<PositiveFloat_from(modulus)>>

\* Radian::as_float(&self)
as_float(r) == PositiveFloat_as_float(r[1])

\* Radian::MIN
MIN == <<PositiveFloat_MIN>>
\* Radian::MAX
MAX == <<<<FSub(TAU, MIN_POSITIVE)>>>>

\* #[derive(Default)]
Default == <<<<Zero>>>>

\* #[derive(Serialize)] on the newtype struct Radian(PositiveFloat)
serialize(r) == [name |-> "Radian", field |-> PositiveFloat_serialize(r[1])]
\* #[derive(Deserialize)]: the field is taken as it is, from() is not called
deserialize(e) == <<PositiveFloat_deserialize(e.field)>>

\* #[derive(PartialEq)]
RadianEq(a, b) == FEq(as_float(a), as_float(b))

\* "always a positive number within the range of [0, 2 pi)"
InRange(r) == contains(Zero, TAU, as_float(r))

-----------------------------------------------------------------------------
(* The state machine.                                                      *)

Init ==
    /\ radian = Default
    /\ op = "default"
    /\ input = Zero
    /\ before = Zero
    /\ encoded = <<>>
    /\ sent = <<>>
    /\ decoded = <<>>

\* let r = Radian::from(value)
Renew(value) ==
    /\ radian' = from(value)
    /\ op' = "from"
    /\ UNCHANGED <<encoded, sent, decoded>>

\* impl MulAssign<Float> for Radian: r *= rhs
mul_assign(rhs) ==
    /\ radian' = from(FMul(as_float(radian), rhs))
    /\ op' = "mul_assign"
    /\ UNCHANGED <<encoded, sent, decoded>>

New(value) ==
    /\ Renew(value)
    /\ input' = value
    /\ before' = Zero

Scale(rhs) ==
    /\ mul_assign(rhs)
    /\ input' = rhs
    /\ before' = as_float(radian)

Next ==
    \/ \E value \in FiniteFloats : New(value)
    \/ \E rhs \in FiniteFloats : Scale(rhs)

Spec == Init /\ [][Next]_vars

-----------------------------------------------------------------------------
(* The same operations with the serde round trip (feature "serde").        *)

\* The raw floats tried around a round trip: zero, the smallest subnormal,
\* one, a full turn and the largest finite float, of either sign.
SerdeFloats ==
    {Fin(n, m) : n \in BOOLEAN, m \in {0, 1, Pow2(FracBits), TAU.mag, MaxMag}}

Serialize ==
    /\ encoded' = <<serialize(radian)>>
    /\ sent' = <<radian>>
    /\ op' = "serialize"
    /\ UNCHANGED <<radian, input, before, decoded>>

Deserialize ==
    /\ encoded # <<>>
    /\ decoded' = <<deserialize(encoded[1])>>
    /\ op' = "deserialize"
    /\ UNCHANGED <<radian, input, before, encoded, sent>>

NextSerde ==
    \/ \E value \in SerdeFloats : Renew(value) /\ UNCHANGED <<input, before>>
    \/ \E rhs \in SerdeFloats : mul_assign(rhs) /\ UNCHANGED <<input, before>>
    \/ Serialize
    \/ Deserialize

SerdeSpec == Init /\ [][NextSerde]_vars

-----------------------------------------------------------------------------
(* The properties.                                                         *)

\* x mod TAU of the reals (x finite): the r in [0, TAU) with r = x + k * TAU.
FloorMod(x) == Value(x) % TAU.mag

\* The float of the integer k.
IntToFloat(k) == IF k < 0 THEN FromRat(TRUE, (0 - k) * Pow2(FracBits), 1)
                 ELSE FromRat(FALSE, k * Pow2(FracBits), 1)

\* C1: for every finite raw x, Radian::from(x) yields a value and its
\* as_float() lies in [0, TAU).
C1_RangeOnConstruction ==
    (op = "from" /\ is_finite(input)) =>
        /\ is_finite(as_float(radian))
        /\ FLe(Zero, as_float(radian))
        /\ FLt(as_float(radian), TAU)

\* C1 witness: a negative input of more than one turn was normalised to a
\* non-zero angle.
C1_Witness ==
    /\ op = "from"
    /\ is_sign_negative(input)
    /\ input.mag > TAU.mag
    /\ as_float(radian).mag > 0

\* C2 (as claimed): the stored value lies in [0, TAU) in every state reached
\* by construction from a finite number and scalings by finite factors.
C2_InvariantAfterEveryMutation == InRange(radian)

\* C3: for every x with 0 <= x < TAU, Radian::from(x).as_float() == x.
C3_IdentityOnCanonical ==
    (op = "from" /\ contains(Zero, TAU, input)) => FEq(as_float(radian), input)

\* C3 witness: a positive subnormal input, the smallest values of the range,
\* was stored.
C3_Witness ==
    /\ op = "from"
    /\ FLt(Zero, input)
    /\ FLt(input, MIN_POSITIVE)
    /\ as_float(radian).mag = input.mag

\* C4 (as claimed): after a *= f, a.as_float() == Radian::from(a_before *
\* f).as_float(), for every angle a and every finite factor f.
C4_ScaleEqualsReconstruction ==
    (op = "mul_assign" /\ is_finite(input)) =>
        FEq(as_float(radian), as_float(from(FMul(before, input))))

\* C5 (as claimed): for every negative finite x, Radian::from(x).as_float()
\* is exactly the floor modulo of x by TAU, and Radian::from(-h).as_float()
\* == TAU - h for every h with 0 < h < TAU.
C5_NegativeIsFloorModulo ==
    (op = "from" /\ is_sign_negative(input)) =>
        /\ is_finite(as_float(radian))
        /\ Value(as_float(radian)) = FloorMod(input)
        /\ (input.mag > 0 /\ input.mag < TAU.mag) =>
               FEq(as_float(radian), FSub(TAU, [input EXCEPT !.neg = FALSE]))

\* The floor modulo of x by TAU as a float: rounded to the nearest float,
\* and 0 when that float is TAU itself.
RoundedFloorMod(x) ==
    LET r == FromRat(FALSE, FloorMod(x), 1)
    IN  IF FEq(r, TAU) THEN Zero ELSE r

\* C5 (amended): for every negative finite x, Radian::from(x).as_float() is
\* the floor modulo of x by TAU rounded to the nearest float, and 0 when
\* that rounds up to TAU; it is the exact floor modulo whenever that is a
\* float, so a negative multiple of TAU yields 0.
C5_NegativeIsRoundedFloorModulo ==
    (op = "from" /\ is_sign_negative(input)) =>
        /\ FEq(as_float(radian), RoundedFloorMod(input))
        /\ Representable(FloorMod(input)) =>
               Value(as_float(radian)) = FloorMod(input)

\* C5 witness: a negative input whose floor modulo is no float was
\* normalised to a non-zero angle.
C5_Witness ==
    /\ op = "from"
    /\ is_sign_negative(input)
    /\ ~Representable(FloorMod(input))
    /\ as_float(radian).mag > 0

\* x modulo TAU for x >= TAU, and Radian::from(TAU) == 0.
OverflowIsModulo ==
    (op = "from" /\ FLe(TAU, input)) =>
        /\ is_finite(as_float(radian))
        /\ Value(as_float(radian)) = FloorMod(input)
        /\ FEq(input, TAU) => FEq(as_float(radian), Zero)

\* C6 (as claimed): for every finite x >= TAU, Radian::from(x).as_float() ==
\* x modulo TAU, Radian::from(TAU).as_float() == 0, and for every h with
\* 0 <= h < TAU, Radian::from(TAU + h).as_float() == h.
C6_OverflowWraps ==
    /\ OverflowIsModulo
    /\ \A h \in FiniteFloats :
           (op = "from" /\ contains(Zero, TAU, h) /\ input = FAdd(TAU, h)) =>
               FEq(as_float(radian), h)

\* C6 (amended): for every finite x >= TAU, Radian::from(x).as_float() == x
\* modulo TAU, Radian::from(TAU).as_float() == 0, and for every h with
\* 0 <= h < TAU whose sum TAU + h is a float, Radian::from(TAU +
\* h).as_float() == h.
C6_OverflowWrapsExactSums ==
    /\ OverflowIsModulo
    /\ \A h \in FiniteFloats :
           (/\ op = "from"
            /\ contains(Zero, TAU, h)
            /\ input = FAdd(TAU, h)
            /\ Value(input) = TAU.mag + Value(h)) =>
               FEq(as_float(radian), h)

\* C6 witness: an input of more than two turns was normalised to a non-zero
\* angle.
C6_Witness ==
    /\ op = "from"
    /\ ~is_sign_negative(input)
    /\ input.mag > 2 * TAU.mag
    /\ as_float(radian).mag > 0

\* C7: Radian::from(Radian::from(x).as_float()).as_float() ==
\* Radian::from(x).as_float() for every finite x.
C7_Idempotence ==
    (op = "from" /\ is_finite(input)) =>
        FEq(as_float(from(as_float(radian))), as_float(radian))

\* C7 witness: an input of exactly minus one turn, which the correction
\* step takes through TAU itself, was normalised.
C7_Witness ==
    /\ op = "from"
    /\ is_sign_negative(input)
    /\ input.mag = TAU.mag
    /\ FEq(as_float(radian), Zero)

\* C8 (as claimed): MIN.as_float() == 0; MAX.as_float() < TAU and no float
\* lies between MAX and TAU; both constants are in [0, TAU), and every
\* angle that is in [0, TAU) lies between them.
C8_BoundaryConstants ==
    /\ FEq(as_float(MIN), Zero)
    /\ FLt(as_float(MAX), TAU)
    /\ \A v \in FiniteFloats : ~(FLt(as_float(MAX), v) /\ FLt(v, TAU))
    /\ InRange(MIN)
    /\ InRange(MAX)
    /\ InRange(radian) =>
           /\ FLe(as_float(MIN), as_float(radian))
           /\ FLe(as_float(radian), as_float(MAX))

C10_Periodicity ==
    op = "from" =>
        \A k \in (0 - MaxTurns)..MaxTurns :
            LET y == FAdd(input, FMul(IntToFloat(k), TAU))
            IN  is_finite(y) => RadianEq(from(y), radian)

\* C10 (amended): Radian::from(y).as_float() == Radian::from(x).as_float()
\* for all finite floats x and y that differ by exactly a whole number of
\* TAU, on whichever side of zero and of the range each lies.
C10_PeriodicityExact ==
    op = "from" =>
        \A y \in FiniteFloats :
            (Value(y) - Value(input)) % TAU.mag = 0 => RadianEq(from(y), radian)

\* C10 witness: a negative input of more than one turn has a partner of
\* more than one turn on the positive side, and was normalised to a
\* non-zero angle.
C10_Witness ==
    /\ op = "from"
    /\ is_sign_negative(input)
    /\ input.mag > TAU.mag
    /\ as_float(radian).mag > 0
    /\ \E y \in FiniteFloats :
           /\ ~is_sign_negative(y)
           /\ y.mag > TAU.mag
           /\ (Value(y) - Value(input)) % TAU.mag = 0

====
